---- MODULE Spec2Model ----
(***************************************************************************)
(* A model of jss/connectors.py: the base connector (JSSConnector), the    *)
(* XML API connector (JSSAPIConnector), the UAPI connector                 *)
(* (JSSUAPIConnector) and the scraper connector (JSSScraperConnector).     *)
(*                                                                         *)
(* Strings are sequences of tokens (one token per character, or per XML    *)
(* tag).  An HTTP response is a record chosen by the server, that is, by   *)
(* \E: server holds the answer the XML API gives to the next request.      *)
(*                                                                         *)
(* Spec     : the four verbs of the XML connector, on an instance that     *)
(*            carries the attributes its constructors assign.              *)
(* SpecInit : construction of the three connector classes, assignments to  *)
(*            base_url and ssl_verify, the scraper's _login and the UAPI   *)
(*            connector's _create_token.                                   *)
(***************************************************************************)
EXTENDS Integers, Sequences, FiniteSets, TLC

VARIABLES conn, last, objs, server

vars == <<conn, last, objs, server>>

(***************************************************************************)
(* Bounds and input sets.                                                  *)
(***************************************************************************)
MaxBodyLen == 4
MaxSlashes == 2

RECURSIVE SeqsUpTo(_, _)
SeqsUpTo(S, n) ==
    IF n = 0 THEN {<<>>}
    ELSE LET shorter == SeqsUpTo(S, n - 1)
         IN shorter \cup {Append(s, c) : s \in {t \in shorter : Len(t) = n - 1}, c \in S}

BodyTokens == {"<id>", "</id>", "4", "2"}
Bodies == SeqsUpTo(BodyTokens, MaxBodyLen)
Statuses == {200, 201, 204, 399, 400, 404}
UrlChars == {"h", "/"}
\* Endpoints as a caller gives them: a location followed by 0..MaxSlashes "/".
Urls == {stem \o tail : stem \in {<<"h">>, <<"h", "/", "h">>},
                        tail \in SeqsUpTo({"/"}, MaxSlashes)}
Paths == {<<"/", "p">>, <<"/", "p", " ", "e'">>}
ObjClasses == {"Package", "Policy"}
Cookies == {"c1"}
NoCookie == "none"
Ids == {1, 2}
Classes == {"JSSAPIConnector", "JSSUAPIConnector", "JSSScraperConnector"}
Creds == {[user |-> "admin", password |-> "s3cret"], [user |-> "bob", password |-> "pw"]}

Responses == [status_code : Statuses, text : Bodies]
UiResponses == [status_code : {200, 401}, set_cookie : Cookies \cup {NoCookie}]

(***************************************************************************)
(* Python values.                                                          *)
(***************************************************************************)
None == [type |-> "None"]
Str(s) == [type |-> "str", val |-> s]
Truthy(v) == v.type = "str" /\ Len(v.val) > 0

Returns(v) == [kind |-> "return", exc |-> "", msg |-> "", status |-> 0, text |-> <<>>, value |-> v]
Raises(exc, msg, status, text) ==
    [kind |-> "raise", exc |-> exc, msg |-> msg, status |-> status, text |-> text, value |-> None]

(***************************************************************************)
(* str.rstrip("/"), str.encode("utf_8"), urllib.quote.                     *)
(***************************************************************************)
rstrip_once(s, c) ==
    IF Len(s) > 0 /\ s[Len(s)] = c THEN SubSeq(s, 1, Len(s) - 1) ELSE s

RECURSIVE rstrip(_, _)
rstrip(s, c) ==
    IF Len(s) > 0 /\ s[Len(s)] = c THEN rstrip(SubSeq(s, 1, Len(s) - 1), c) ELSE s

RECURSIVE FlatMap(_, _)
FlatMap(f, s) == IF s = <<>> THEN <<>> ELSE f[Head(s)] \o FlatMap(f, Tail(s))

AllChars == BodyTokens \cup UrlChars \cup {"p", " ", "e'", "\\xc3", "\\xa9"}

\* "e'" stands for U+00E9, the one non-ASCII character of the alphabet; it
\* encodes to the two bytes C3 A9, every other character to itself.
encode_utf8(s) ==
    FlatMap([c \in AllChars |-> IF c = "e'" THEN <<"\\xc3", "\\xa9">> ELSE <<c>>], s)

\* quote() keeps letters, digits and "/" and percent-encodes every other byte.
quote(s) ==
    FlatMap([c \in AllChars |->
                CASE c = " " -> <<"%20">>
                  [] c = "\\xc3" -> <<"%C3">>
                  [] c = "\\xa9" -> <<"%A9">>
                  [] OTHER -> <<c>>], s)

(***************************************************************************)
(* xml.etree.ElementTree: fromstring and tostring over the token alphabet. *)
(* A document is well formed when it is exactly one element: it opens with *)
(* a start tag, the nesting depth returns to zero at the last token and    *)
(* nowhere before it.                                                      *)
(***************************************************************************)
RECURSIVE Depth(_, _)
Depth(s, n) ==
    IF n = 0 THEN 0
    ELSE Depth(s, n - 1) + (CASE s[n] = "<id>" -> 1 [] s[n] = "</id>" -> -1 [] OTHER -> 0)

WellFormed(s) ==
    /\ Len(s) >= 2
    /\ s[1] = "<id>"
    /\ Depth(s, Len(s)) = 0
    /\ \A n \in 1..(Len(s) - 1) : Depth(s, n) > 0

Element(tag, inner) == [type |-> "Element", tag |-> tag, inner |-> inner]

fromstring(s) == Element("id", SubSeq(s, 2, Len(s) - 1))

tostring(e) == <<"<id>">> \o e.inner \o <<"</id>">>

Docs == {Element("id", <<"4">>)}

(***************************************************************************)
(* re.search(r"<id>([0-9]+)</id>", s) and int().                           *)
(***************************************************************************)
Digits == {"4", "2"}
DigitVal(d) == IF d = "4" THEN 4 ELSE 2

RECURSIVE int(_)
int(ds) == IF ds = <<>> THEN 0 ELSE 10 * int(SubSeq(ds, 1, Len(ds) - 1)) + DigitVal(ds[Len(ds)])

\* A match starts at i: "<id>", then digits up to position j - 1, then "</id>" at j.
MatchAt(s, i, j) ==
    /\ i >= 1 /\ j <= Len(s) /\ j >= i + 2
    /\ s[i] = "<id>"
    /\ s[j] = "</id>"
    /\ \A k \in (i + 1)..(j - 1) : s[k] \in Digits

MatchStarts(s) == {i \in 1..Len(s) : \E j \in 1..Len(s) : MatchAt(s, i, j)}

\* The leftmost match, as a record, or None.
re_search_id(s) ==
    IF MatchStarts(s) = {} THEN None
    ELSE LET i == CHOOSE m \in MatchStarts(s) : \A n \in MatchStarts(s) : m <= n
             j == CHOOSE m \in 1..Len(s) : MatchAt(s, i, m)
         IN [type |-> "Match", group1 |-> SubSeq(s, i + 1, j - 1)]

(***************************************************************************)
(* The connector object: a record of its attributes.  session is None      *)
(* until the subclass constructor has created the requests.Session;        *)
(* ssl_verify is the plain instance attribute of the classes that define   *)
(* no ssl_verify property.                                                 *)
(***************************************************************************)
Ok(self) == [ok |-> TRUE, self |-> self, exc |-> ""]
Fails(exc) == [ok |-> FALSE, self |-> None, exc |-> exc]

base_url(self) == self._base_url

set_base_url(self, url) == [self EXCEPT !._base_url = rstrip(url, "/")]

api_url(self) == base_url(self) \o <<"/", "JSSResource">>

uapi_url(self) == base_url(self) \o <<"/", "uapi">>

\* JSSAPIConnector.ssl_verify, getter and setter: both go through self.session.
get_ssl_verify(self) == self.session.verify

set_ssl_verify(self, value) ==
    IF self.session = None
    THEN Fails("AttributeError")
    ELSE Ok([self EXCEPT !.session = [self.session EXCEPT !.verify = value]])

\* The statement `self.ssl_verify = value`: the property of JSSAPIConnector,
\* an ordinary attribute on the other classes.
assign_ssl_verify(self, value) ==
    IF self.cls = "JSSAPIConnector"
    THEN set_ssl_verify(self, value)
    ELSE Ok([self EXCEPT !.ssl_verify = value])

\* requests.Session(): verification on, no credentials, an empty cookie jar.
NewSession == [verify |-> TRUE, auth |-> None, cookies |-> NoCookie]

JSSConnector__init__(cls, args) ==
    LET url == IF args.jss_prefs # None THEN args.jss_prefs.url ELSE args.url
        user == IF args.jss_prefs # None THEN args.jss_prefs.user ELSE args.user
        password == IF args.jss_prefs # None THEN args.jss_prefs.password ELSE args.password
        ssl_verify == IF args.jss_prefs # None THEN args.jss_prefs.verify ELSE args.ssl_verify
        self0 == [cls |-> cls, _base_url |-> <<>>, user |-> None, password |-> None,
                  verbose |-> FALSE, ssl_verify |-> None, session |-> None]
        self1 == [set_base_url(self0, url) EXCEPT !.user = user, !.password = password,
                                                  !.verbose = args.verbose]
    IN assign_ssl_verify(self1, ssl_verify)

JSSAPIConnector__init__(args) ==
    LET base == JSSConnector__init__("JSSAPIConnector", args)
    IN IF ~base.ok THEN base
       ELSE Ok([base.self EXCEPT !.session =
                   [NewSession EXCEPT !.auth = <<base.self.user, base.self.password>>]])

JSSUAPIConnector__init__(args) ==
    LET base == JSSConnector__init__("JSSUAPIConnector", args)
    IN IF ~base.ok THEN base ELSE Ok([base.self EXCEPT !.session = NewSession])

JSSScraperConnector__init__(args) ==
    LET base == JSSConnector__init__("JSSScraperConnector", args)
    IN IF ~base.ok THEN base ELSE Ok([base.self EXCEPT !.session = NewSession])

\* What one call does, in order: the requests it puts on the wire, the lines
\* it prints, the XML parse and the factory call.
SendEv(self, method, url, data) ==
    [ev |-> "send", method |-> method, url |-> url, data |-> data,
     verify |-> self.session.verify, auth |-> self.session.auth,
     cookie |-> self.session.cookies]

PrintEv(method, url) == [ev |-> "print", method |-> method, url |-> url]

ParseEv == [ev |-> "fromstring"]

FactoryEv(obj_class, id) == [ev |-> "get_object", obj_class |-> obj_class, id |-> id]

Result(events, outcome) == [events |-> events, outcome |-> outcome]

\* requests.Session keeps the cookie a response sets.
session_receive(session, response) ==
    IF response.set_cookie # NoCookie
    THEN [session EXCEPT !.cookies = response.set_cookie]
    ELSE session

\* jss.tools.error_handler(exception_cls, response): raises exception_cls built
\* from the response's status code and body.
error_handler(exception_cls, response) ==
    Raises(exception_cls, "Response Code", response.status_code, response.text)

\* JSSObjectFactory.get_object(obj_class, id): the realized object.
get_object(obj_class, id) == [type |-> "JSSObject", obj_class |-> obj_class, id |-> id]

(***************************************************************************)
(* JSSAPIConnector.get / post / put / delete.  response is what the server *)
(* answers to the one request the method sends.                            *)
(***************************************************************************)
get_gt400(self, url_path, response) ==
    LET request_url == api_url(self) \o quote(encode_utf8(url_path))
        sent == <<SendEv(self, "GET", request_url, None)>>
        printed == IF response.status_code = 200 /\ self.verbose
                   THEN <<PrintEv("GET", request_url)>> ELSE <<>>
    IN  IF printed = <<>> /\ response.status_code > 400
        THEN Result(sent, error_handler("JSSGetError", response))
        ELSE LET jss_results == encode_utf8(response.text)
                 evs == sent \o printed \o <<ParseEv>>
             IN IF WellFormed(jss_results)
                THEN Result(evs, Returns(fromstring(jss_results)))
                ELSE Result(evs, Raises("JSSGetError", "Error Parsing XML", 0, jss_results))

get(self, url_path, response) ==
    LET request_url == api_url(self) \o quote(encode_utf8(url_path))
        sent == <<SendEv(self, "GET", request_url, None)>>
        printed == IF response.status_code = 200 /\ self.verbose
                   THEN <<PrintEv("GET", request_url)>> ELSE <<>>
    IN  IF printed = <<>> /\ response.status_code >= 400
        THEN Result(sent, error_handler("JSSGetError", response))
        ELSE LET jss_results == encode_utf8(response.text)
                 evs == sent \o printed \o <<ParseEv>>
             IN IF WellFormed(jss_results)
                THEN Result(evs, Returns(fromstring(jss_results)))
                ELSE Result(evs, Raises("JSSGetError", "Error Parsing XML", 0, jss_results))

post_gt400(self, obj_class, url_path, data, response) ==
    LET request_url == api_url(self) \o url_path
        sent == <<SendEv(self, "POST", request_url, Str(tostring(data)))>>
        printed == IF response.status_code = 201 /\ self.verbose
                   THEN <<PrintEv("POST", request_url)>> ELSE <<>>
    IN  IF printed = <<>> /\ response.status_code > 400
        THEN Result(sent, error_handler("JSSPostError", response))
        ELSE LET jss_results == encode_utf8(response.text)
                 m == re_search_id(jss_results)
             IN IF m = None
                THEN Result(sent \o printed,
                            Raises("AttributeError", "'NoneType' object has no attribute 'group'",
                                   0, <<>>))
                ELSE LET id_ == int(m.group1)
                     IN Result(sent \o printed \o <<FactoryEv(obj_class, id_)>>,
                               Returns(get_object(obj_class, id_)))

post(self, obj_class, url_path, data, response) ==
    LET request_url == api_url(self) \o url_path
        sent == <<SendEv(self, "POST", request_url, Str(tostring(data)))>>
        printed == IF response.status_code = 201 /\ self.verbose
                   THEN <<PrintEv("POST", request_url)>> ELSE <<>>
    IN  IF printed = <<>> /\ response.status_code >= 400
        THEN Result(sent, error_handler("JSSPostError", response))
        ELSE LET jss_results == encode_utf8(response.text)
                 m == re_search_id(jss_results)
             IN IF m = None
                THEN Result(sent \o printed,
                            Raises("AttributeError", "'NoneType' object has no attribute 'group'",
                                   0, <<>>))
                ELSE LET id_ == int(m.group1)
                     IN Result(sent \o printed \o <<FactoryEv(obj_class, id_)>>,
                               Returns(get_object(obj_class, id_)))

put_only201(self, url_path, data, response) ==
    LET request_url == api_url(self) \o url_path
        sent == <<SendEv(self, "PUT", request_url, Str(tostring(data)))>>
        printed == IF response.status_code = 201 /\ self.verbose
                   THEN <<PrintEv("PUT", request_url)>> ELSE <<>>
    IN  IF response.status_code # 201
        THEN Result(sent, error_handler("JSSPutError", response))
        ELSE Result(sent \o printed, Returns(None))

put(self, url_path, data, response) ==
    LET request_url == api_url(self) \o url_path
        sent == <<SendEv(self, "PUT", request_url, Str(tostring(data)))>>
        printed == IF response.status_code = 201 /\ self.verbose
                   THEN <<PrintEv("PUT", request_url)>> ELSE <<>>
    IN  IF printed = <<>> /\ response.status_code >= 400
        THEN Result(sent, error_handler("JSSPutError", response))
        ELSE Result(sent \o printed, Returns(None))

delete_retry(self, url_path, data, response) ==
    LET request_url == api_url(self) \o url_path
        sent == IF Truthy(data)
                THEN <<SendEv(self, "DELETE", request_url, data)>>
                ELSE <<SendEv(self, "DELETE", request_url, None)>>
        printed == IF response.status_code = 200 /\ self.verbose
                   THEN <<PrintEv("DEL", request_url)>> ELSE <<>>
    IN  IF printed = <<>> /\ response.status_code >= 400
        THEN Result(sent \o sent, error_handler("JSSDeleteError", response))
        ELSE Result(sent \o printed, Returns(None))

delete_print_always(self, url_path, data, response) ==
    LET request_url == api_url(self) \o url_path
        sent == IF Truthy(data)
                THEN <<SendEv(self, "DELETE", request_url, data)>>
                ELSE <<SendEv(self, "DELETE", request_url, None)>>
        printed == IF response.status_code = 200
                   THEN <<PrintEv("DEL", request_url)>> ELSE <<>>
    IN  IF printed = <<>> /\ response.status_code >= 400
        THEN Result(sent, error_handler("JSSDeleteError", response))
        ELSE Result(sent \o printed, Returns(None))

delete(self, url_path, data, response) ==
    LET request_url == api_url(self) \o url_path
        sent == IF Truthy(data)
                THEN <<SendEv(self, "DELETE", request_url, data)>>
                ELSE <<SendEv(self, "DELETE", request_url, None)>>
        printed == IF response.status_code = 200 /\ self.verbose
                   THEN <<PrintEv("DEL", request_url)>> ELSE <<>>
    IN  IF printed = <<>> /\ response.status_code >= 400
        THEN Result(sent, error_handler("JSSDeleteError", response))
        ELSE Result(sent \o printed, Returns(None))

(***************************************************************************)
(* JSSUAPIConnector._create_token and JSSScraperConnector._login: one POST *)
(* on the connector's own session; the response is not looked at.          *)
(***************************************************************************)
create_token(self, response) ==
    [events |-> <<SendEv(self, "POST", uapi_url(self) \o <<"/", "auth", "/", "tokens">>, None)>>,
     outcome |-> Returns(None),
     self |-> [self EXCEPT !.session = session_receive(self.session, response)]]

login_api_url(self, response) ==
    [events |-> <<SendEv(self, "POST", api_url(self),
                         [type |-> "form", username |-> self.user, password |-> self.password])>>,
     outcome |-> Returns(None),
     self |-> [self EXCEPT !.session = session_receive(self.session, response)]]

login(self, response) ==
    [events |-> <<SendEv(self, "POST", self._base_url,
                         [type |-> "form", username |-> self.user, password |-> self.password])>>,
     outcome |-> Returns(None),
     self |-> [self EXCEPT !.session = session_receive(self.session, response)]]

(***************************************************************************)
(* Spec: calls on one XML connector.  The instance carries what lines      *)
(* 88-96 and 121-136 assign: a normalized endpoint, the credentials, the   *)
(* verbosity, and a session with basic-auth credentials attached.          *)
(***************************************************************************)
NoObjs == [i \in Ids |-> None]

NoCall == [op |-> "none", id |-> 0, args |-> None, response |-> None, events |-> <<>>,
           outcome |-> Returns(None)]

Call(op, id, args, response, res) ==
    [op |-> op, id |-> id, args |-> args, response |-> response, events |-> res.events,
     outcome |-> res.outcome]

Init ==
    /\ \E verbose \in BOOLEAN, verify \in BOOLEAN :
          conn = [cls |-> "JSSAPIConnector", _base_url |-> <<"h">>, user |-> "admin",
                  password |-> "s3cret", verbose |-> verbose, ssl_verify |-> None,
                  session |-> [verify |-> verify, auth |-> <<"admin", "s3cret">>,
                               cookies |-> NoCookie]]
    /\ last = NoCall
    /\ objs = NoObjs
    /\ server \in Responses

Get ==
    \E url_path \in Paths :
        /\ last' = Call("get", 0, [url_path |-> url_path], server,
                        get(conn, url_path, server))
        /\ UNCHANGED <<conn, objs, server>>

Post ==
    \E obj_class \in ObjClasses, url_path \in Paths, data \in Docs :
        /\ last' = Call("post", 0, [obj_class |-> obj_class, url_path |-> url_path, data |-> data],
                        server, post(conn, obj_class, url_path, data, server))
        /\ UNCHANGED <<conn, objs, server>>

Put ==
    \E url_path \in Paths, data \in Docs :
        /\ last' = Call("put", 0, [url_path |-> url_path, data |-> data], server,
                        put(conn, url_path, data, server))
        /\ UNCHANGED <<conn, objs, server>>

DeleteData == {None, Str(<<>>), Str(<<"<id>", "</id>">>)}

Delete ==
    \E url_path \in Paths, data \in DeleteData :
        /\ last' = Call("delete", 0, [url_path |-> url_path, data |-> data], server,
                        delete(conn, url_path, data, server))
        /\ UNCHANGED <<conn, objs, server>>

SetSslVerify ==
    \E value \in BOOLEAN :
        /\ conn' = set_ssl_verify(conn, value).self
        /\ last' = Call("ssl_verify", 0, [value |-> value], None,
                        Result(<<>>, Returns(None)))
        /\ UNCHANGED <<objs, server>>

Next == Get \/ Post \/ Put \/ Delete \/ SetSslVerify

Spec == Init /\ [][Next]_vars

(***************************************************************************)
(* Properties of the four verbs (Spec).                                    *)
(***************************************************************************)
Verbs == {"get", "post", "put", "delete"}
Sends(events) == SelectSeq(events, LAMBDA e : e.ev = "send")
Prints(events) == SelectSeq(events, LAMBDA e : e.ev = "print")
Parses(events) == SelectSeq(events, LAMBDA e : e.ev = "fromstring")
FactoryCalls(events) == SelectSeq(events, LAMBDA e : e.ev = "get_object")
ErrorOf(op) ==
    CASE op = "get" -> "JSSGetError" [] op = "post" -> "JSSPostError"
      [] op = "put" -> "JSSPutError" [] op = "delete" -> "JSSDeleteError"
MethodOf(op) ==
    CASE op = "get" -> "GET" [] op = "post" -> "POST" [] op = "put" -> "PUT"
      [] op = "delete" -> "DELETE"
LabelOf(op) ==
    CASE op = "get" -> "GET" [] op = "post" -> "POST" [] op = "put" -> "PUT"
      [] op = "delete" -> "DEL"
SuccessCode(op) == IF op \in {"get", "delete"} THEN 200 ELSE 201
Status == last.response.status_code
HttpFailure(op) ==
    /\ last.outcome.kind = "raise"
    /\ last.outcome.exc = ErrorOf(op)
    /\ last.outcome.status = Status
    /\ last.outcome.text = last.response.text

\* C1 as stated: put completes silently if and only if the status is 201, and
\* raises a put-failure for every other status, 200 included.
C1_PutOnly201 ==
    last.op = "put" =>
        IF Status = 201 THEN last.outcome = Returns(None) ELSE HttpFailure("put")

\* C1, amended: put raises a put-failure carrying status and body exactly when
\* the status is >= 400; for every status below 400 (201, and also 200) it
\* completes without raising and returns no value.
C1_PutRaisesFrom400 ==
    last.op = "put" =>
        IF Status >= 400 THEN HttpFailure("put") ELSE last.outcome = Returns(None)

C1_Witness == last.op = "put" /\ Status = 200 /\ last.outcome = Returns(None)

\* C2: get returns the parsed root for 200 with well-formed XML; for a status
\* >= 400 it raises a get-failure with status and body and never parses; for
\* 200 with malformed XML it raises a get-failure whose message differs from
\* the HTTP failure's; it never returns None.
C2_GetContract ==
    last.op = "get" =>
        LET body == last.response.text
        IN /\ (Status = 200 /\ WellFormed(body)) =>
                  /\ last.outcome.kind = "return"
                  /\ last.outcome.value.type = "Element"
                  /\ last.outcome.value.tag = "id"
                  /\ <<"<id>">> \o last.outcome.value.inner \o <<"</id>">> = body
           /\ Status >= 400 => HttpFailure("get") /\ Parses(last.events) = <<>>
           /\ (Status = 200 /\ ~WellFormed(body)) =>
                  /\ last.outcome.kind = "raise"
                  /\ last.outcome.exc = "JSSGetError"
                  /\ last.outcome.msg # error_handler("JSSGetError", last.response).msg
                  /\ last.outcome.text = body
           /\ last.outcome.kind = "return" => last.outcome.value.type = "Element"

C2_Witness ==
    /\ last.op = "get" /\ Status = 200
    /\ last.response.text = <<"<id>", "4", "</id>", "2">>
    /\ last.outcome.kind = "raise" /\ last.outcome.msg = "Error Parsing XML"

\* C3: post raises a post-failure and never calls the factory when the status
\* is >= 400; otherwise, when the body holds <id>N</id>, get_object is called
\* exactly once, after the POST was sent, with the given kind and the integer
\* N of the leftmost match, and post returns the factory's object.
FirstId(body, n) ==
    \E i, j \in 1..Len(body) :
        /\ MatchAt(body, i, j)
        /\ \A i2 \in 1..(i - 1), j2 \in 1..Len(body) : ~MatchAt(body, i2, j2)
        /\ int(SubSeq(body, i + 1, j - 1)) = n

C3_PostContract ==
    last.op = "post" =>
        LET body == last.response.text
            calls == FactoryCalls(last.events)
        IN /\ Status >= 400 => HttpFailure("post") /\ calls = <<>>
           /\ (Status < 400 /\ \E i, j \in 1..Len(body) : MatchAt(body, i, j)) =>
                  /\ Len(calls) = 1
                  /\ calls[1].obj_class = last.args.obj_class
                  /\ FirstId(body, calls[1].id)
                  /\ last.events[1].ev = "send" /\ last.events[1].method = "POST"
                  /\ last.events[Len(last.events)] = calls[1]
                  /\ last.outcome = Returns(get_object(calls[1].obj_class, calls[1].id))
           /\ (body = <<"<id>", "4", "2", "</id>">> /\ calls # <<>>) => calls[1].id = 42

C3_Witness ==
    /\ last.op = "post" /\ Status = 201
    /\ last.response.text = <<"<id>", "4", "2", "</id>">>
    /\ FactoryCalls(last.events) = <<FactoryEv("Package", 42)>>
    /\ last.outcome = Returns(get_object("Package", 42))

\* C4 as stated: a post answered with a status < 400 and a body without
\* <id>digits</id> raises a post-failure whose message tells it from an HTTP
\* failure, and does not call the factory.
C4_MissingIdIsPostFailure ==
    (/\ last.op = "post" /\ Status < 400
     /\ ~\E i, j \in 1..Len(last.response.text) : MatchAt(last.response.text, i, j)) =>
        /\ last.outcome.kind = "raise"
        /\ last.outcome.exc = "JSSPostError"
        /\ last.outcome.msg # error_handler("JSSPostError", last.response).msg
        /\ FactoryCalls(last.events) = <<>>

\* C5 as stated: delete raises a delete-failure for a status >= 400 and
\* otherwise returns nothing; the request carries the caller's body whenever
\* one is supplied, an empty one included, and none when data is omitted.
C5_DeleteCarriesSuppliedBody ==
    last.op = "delete" =>
        /\ IF Status >= 400 THEN HttpFailure("delete") ELSE last.outcome = Returns(None)
        /\ Len(Sends(last.events)) = 1
        /\ Sends(last.events)[1].data = last.args.data

C9_TraceIffReturns ==
    last.op \in Verbs =>
        Len(Prints(last.events)) =
            (IF conn.verbose /\ last.outcome.kind = "return" THEN 1 ELSE 0)

\* C9, amended: with verbosity on, a call prints exactly one trace line,
\* naming the method and the request URL, if and only if the response status
\* is the verb's success code (200 for get and delete, 201 for post and put),
\* whether or not the call then raises; with verbosity off nothing is printed.
C9_TraceOnSuccessCode ==
    last.op \in Verbs =>
        Prints(last.events) =
            (IF conn.verbose /\ Status = SuccessCode(last.op)
             THEN <<PrintEv(LabelOf(last.op), Sends(last.events)[1].url)>>
             ELSE <<>>)

C9_Witness ==
    /\ last.op = "delete" /\ conn.verbose /\ Status = 204
    /\ last.outcome = Returns(None) /\ Prints(last.events) = <<>>

(***************************************************************************)
(* SpecInit: two names, each bound at most once to a newly constructed     *)
(* connector of any of the three classes, from a preferences object or     *)
(* from individual parameters; then assignments to base_url and            *)
(* ssl_verify, _login on a scraper connector and _create_token on a UAPI   *)
(* connector.  A constructor that raises leaves its name unbound.          *)
(***************************************************************************)
CtorArgs(via_prefs, url, cred, verify) ==
    IF via_prefs
    THEN [jss_prefs |-> [type |-> "JSSPrefs", url |-> url, user |-> cred.user,
                         password |-> cred.password, verify |-> verify],
          url |-> None, user |-> None, password |-> None, ssl_verify |-> TRUE,
          verbose |-> FALSE]
    ELSE [jss_prefs |-> None, url |-> url, user |-> cred.user, password |-> cred.password,
          ssl_verify |-> verify, verbose |-> FALSE]

Construct(cls, args) ==
    CASE cls = "JSSAPIConnector" -> JSSAPIConnector__init__(args)
      [] cls = "JSSUAPIConnector" -> JSSUAPIConnector__init__(args)
      [] cls = "JSSScraperConnector" -> JSSScraperConnector__init__(args)

InitCtor ==
    /\ conn = None
    /\ server = None
    /\ last = NoCall
    /\ objs = NoObjs

New ==
    \E i \in Ids, cls \in Classes, via_prefs \in BOOLEAN, url \in Urls, cred \in Creds,
       verify \in BOOLEAN :
        LET args == CtorArgs(via_prefs, url, cred, verify)
            made == Construct(cls, args)
        IN /\ objs[i] = None
           /\ objs' = IF made.ok THEN [objs EXCEPT ![i] = made.self] ELSE objs
           /\ last' = Call("__init__", i, [cls |-> cls, ctor |-> args], None,
                           Result(<<>>, IF made.ok THEN Returns(None)
                                        ELSE Raises(made.exc, "", 0, <<>>)))
           /\ UNCHANGED <<conn, server>>

AssignBaseUrl ==
    \E i \in Ids, url \in Urls :
        /\ objs[i] # None
        /\ objs' = [objs EXCEPT ![i] = set_base_url(objs[i], url)]
        /\ last' = Call("base_url", i, [cls |-> objs[i].cls, ctor |-> CtorArgs(FALSE, url,
                        [user |-> objs[i].user, password |-> objs[i].password], TRUE)],
                        None, Result(<<>>, Returns(None)))
        /\ UNCHANGED <<conn, server>>

AssignSslVerify ==
    \E i \in Ids, value \in BOOLEAN :
        /\ objs[i] # None
        /\ objs' = [objs EXCEPT ![i] = assign_ssl_verify(objs[i], value).self]
        /\ last' = Call("ssl_verify", i, [value |-> value], None, Result(<<>>, Returns(None)))
        /\ UNCHANGED <<conn, server>>

Login ==
    \E i \in Ids, response \in UiResponses :
        /\ objs[i] # None
        /\ objs[i].cls = "JSSScraperConnector"
        /\ LET res == login(objs[i], response)
           IN /\ objs' = [objs EXCEPT ![i] = res.self]
              /\ last' = Call("_login", i, None, response, res)
        /\ UNCHANGED <<conn, server>>

CreateToken ==
    \E i \in Ids, response \in UiResponses :
        /\ objs[i] # None
        /\ objs[i].cls = "JSSUAPIConnector"
        /\ LET res == create_token(objs[i], response)
           IN /\ objs' = [objs EXCEPT ![i] = res.self]
              /\ last' = Call("_create_token", i, None, response, res)
        /\ UNCHANGED <<conn, server>>

NextCtor == New \/ AssignBaseUrl \/ AssignSslVerify \/ Login \/ CreateToken

SpecInit == InitCtor /\ [][NextCtor]_vars

(***************************************************************************)
(* Properties of construction, the endpoint and the scraper (SpecInit).    *)
(***************************************************************************)
EndsInSlash(u) == Len(u) > 0 /\ u[Len(u)] = "/"
GivenUrl(args) == IF args.ctor.jss_prefs # None THEN args.ctor.jss_prefs.url ELSE args.ctor.url
GivenVerify(args) ==
    IF args.ctor.jss_prefs # None THEN args.ctor.jss_prefs.verify ELSE args.ctor.ssl_verify

\* C6: the stored endpoint of every connector never ends in "/": what is
\* stored is the given endpoint with all its trailing "/" removed, and a
\* given endpoint without a trailing "/" is stored unchanged.
C6_EndpointNormalized ==
    /\ \A i \in Ids : objs[i] # None => ~EndsInSlash(base_url(objs[i]))
    /\ (last.op \in {"__init__", "base_url"} /\ last.outcome.kind = "return") =>
          LET given == GivenUrl(last.args)
              stored == base_url(objs[last.id])
          IN /\ Len(stored) <= Len(given)
             /\ stored = SubSeq(given, 1, Len(stored))
             /\ \A k \in (Len(stored) + 1)..Len(given) : given[k] = "/"
             /\ ~EndsInSlash(given) => stored = given

C6_Witness ==
    /\ last.op = "base_url"
    /\ GivenUrl(last.args) = <<"h", "/", "/">>
    /\ base_url(objs[last.id]) = <<"h">>

\* C7 as stated: constructing an XML API connector with a verification policy
\* v succeeds, and reading ssl_verify on the new connector gives v.
C7_ApiConstructionKeepsPolicy ==
    (last.op = "__init__" /\ last.args.cls = "JSSAPIConnector") =>
        /\ last.outcome.kind = "return"
        /\ objs[last.id] # None
        /\ get_ssl_verify(objs[last.id]) = GivenVerify(last.args)

\* C10: a _login sends exactly one POST, to the connector's normalized
\* endpoint without any path prefix, with the form fields username and
\* password set to the connector's credentials; the cookie the response sets
\* is kept by that connector's session and no other connector changes; every
\* request carries the cookie its session holds, and a session's cookie only
\* changes to what the server set in answer to that session's own request.
C10_Login ==
    [][/\ last'.op = "_login" =>
            LET i == last'.id
                req == last'.events[1]
            IN /\ Len(last'.events) = 1
               /\ req.ev = "send" /\ req.method = "POST"
               /\ req.url = objs[i]._base_url /\ ~EndsInSlash(req.url)
               /\ req.data = [type |-> "form", username |-> objs[i].user,
                              password |-> objs[i].password]
               /\ last'.response.set_cookie # NoCookie =>
                      objs'[i].session.cookies = last'.response.set_cookie
               /\ \A j \in Ids \ {i} : objs'[j] = objs[j]
       /\ last'.op \in {"_login", "_create_token"} =>
            \A k \in 1..Len(last'.events) :
                last'.events[k].cookie = objs[last'.id].session.cookies
       /\ \A j \in Ids :
            (objs[j] # None /\ objs'[j].session.cookies # objs[j].session.cookies) =>
                /\ last'.id = j
                /\ last'.op \in {"_login", "_create_token"}
                /\ objs'[j].session.cookies = last'.response.set_cookie]_vars

C10_Witness ==
    /\ last.op = "_login"
    /\ last.events[1].cookie = "c1"
    /\ \E j \in Ids \ {last.id} : objs[j] # None /\ objs[j].session.cookies = NoCookie

====
